---- MODULE Spec2Model ----
(***************************************************************************)
(* Model of the pipeline orchestration code of zenml:                      *)
(*   - AWSVMOrchestrator.prepare_or_run_pipeline and the helpers it calls  *)
(*     (aws_vm_orchestrator.py): image lookup, the dispatch loop over      *)
(*     sorted_steps, the bootstrap script of an instance;                  *)
(*   - the step run table (step_run_schemas.py, step_run_models.py):       *)
(*     StepRunSchema.from_request and StepRunSchema.update;                *)
(*   - the parts of the engine the repository keeps outside these files    *)
(*     (dependency resolution, the step launcher's state machine inside    *)
(*     the container, the pipeline run status), taken from the design      *)
(*     document and marked as such where they are defined.                 *)
(***************************************************************************)
EXTENDS Naturals, Sequences, FiniteSets, TLC

\* ------------------------------------------------------------------ bounds

\* Number of steps of the pipeline run that is orchestrated.
NumSteps == 2

\* Latest value of the wall clock (datetime.now()).
MaxTime == 1

\* Largest number of outputs a step declares.
MaxOutputs == 2

Steps == 1..NumSteps

\* ------------------------------------------------------- program constants

\* AWSVMOrchestrator.min_count / max_count: instances asked for per dispatch.
min_count == 1
max_count == 1

\* ------------------------------------------------------------------- state

VARIABLES
    parents,          \* step -> the steps producing its inputs (DAG edges)
    sorted_steps,     \* the ordering handed to prepare_or_run_pipeline,
                      \* or the result of resolve
    step_config,      \* step -> its configuration (enable_cache, outputs)
    self_instance_image, \* AWSVMOrchestrator.instance_image (<<>> = None)
    ec2_images,       \* the images describe_images returns, in its order
    instance_image,   \* local of prepare_or_run_pipeline (<<>> = not set)
    pc,               \* position of prepare_or_run_pipeline
    idx,              \* index of the loop `for step in sorted_steps`
    dispatched,       \* step -> number of create_instance calls made for it
    instances,        \* step -> number of EC2 instances created for it
    script,           \* step -> position of the instance's bootstrap script
    exit_code,        \* step -> exit code of the container (<<>> = none)
    step_run,         \* the step_run table: step -> StepRunSchema row
    output_artifacts, \* step_run_output_artifact: step -> bound outputs
    cached_run,       \* step -> status of the prior step run with its cache key
    run_status,       \* status of the pipeline run
    now,              \* wall clock
    pipeline_spec,    \* the specification handed to resolve
    resolution,       \* what resolve returned for it
    backend_result,   \* step -> what the backend reported for its execution
    input_artifacts,  \* step_run_input_artifact: step -> its <<name, artifact
                      \* id>> items in the order they were supplied
    attempt,          \* number of the run attempt (1 = not resumed)
    last_update,      \* the StepRunUpdateModel the table received last
    step_source,      \* step -> the source path in its StepSpec, as the
                      \* sequence of its dot-separated parts
    tracked,          \* step -> how far the experiment tracker's hooks got
    neptune_run       \* NeptuneExperimentTracker.run_state and its active run

vars == <<parents, sorted_steps, step_config, self_instance_image,
          ec2_images, instance_image, pc, idx, dispatched, instances, script, exit_code,
          step_run, output_artifacts, cached_run, run_status, now,
          pipeline_spec, resolution, backend_result, input_artifacts, attempt,
          last_update, step_source, tracked, neptune_run>>

\* Optional[X]: None is the empty sequence, a value v is <<v>>.
None == <<>>
Some(v) == <<v>>
Optional(S) == {None} \cup {Some(v) : v \in S}

\* zenml.enums.ExecutionStatus, with the PENDING state of the design document.
ExecutionStatus == {"PENDING", "RUNNING", "CACHED", "COMPLETED", "FAILED"}
TerminalStatus == {"CACHED", "COMPLETED", "FAILED"}

Times == 0..MaxTime

\* ------------------------------------------------- step run table (source)

\* json.dumps(d, sort_keys=True) of a dict given as the sequence of its
\* <<key, value>> items in insertion order (keys are numbered in their
\* alphabetical order): the items ordered by key.
RECURSIVE SortItems(_)
SortItems(items) ==
    IF items = <<>> THEN <<>>
    ELSE LET least == CHOOSE i \in 1..Len(items) :
                          \A j \in 1..Len(items) : items[i][1] <= items[j][1]
             rest  == [k \in 1..(Len(items) - 1) |->
                          IF k < least THEN items[k] ELSE items[k + 1]]
         IN  <<items[least]>> \o SortItems(rest)

json_dumps_sorted(d) == SortItems(d)

\* A from_request that stores caching as enabled whatever the step says.
from_request_CacheColumnSet(request) ==
    [ name               |-> request.name,
      pipeline_run_id    |-> request.pipeline_run_id,
      enable_cache       |-> TRUE,
      code_hash          |-> request.step.config.code_hash,
      cache_key          |-> request.cache_key,
      start_time         |-> request.start_time,
      end_time           |-> request.end_time,
      entrypoint_name    |-> request.step.config.name,
      parameters         |-> json_dumps_sorted(request.step.config.parameters),
      step_configuration |-> request.step,
      num_outputs        |-> request.step.config.num_outputs,
      status             |-> request.status ]

\* A from_request that stores no declared output.
from_request_NoOutputs(request) ==
    [ name               |-> request.name,
      pipeline_run_id    |-> request.pipeline_run_id,
      enable_cache       |-> request.step.config.enable_cache,
      code_hash          |-> request.step.config.code_hash,
      cache_key          |-> request.cache_key,
      start_time         |-> request.start_time,
      end_time           |-> request.end_time,
      entrypoint_name    |-> request.step.config.name,
      parameters         |-> json_dumps_sorted(request.step.config.parameters),
      step_configuration |-> request.step,
      num_outputs        |-> 0,
      status             |-> request.status ]

\* StepRunSchema.from_request: the row built from a StepRunRequestModel.
from_request(request) ==
    [ name               |-> request.name,
      pipeline_run_id    |-> request.pipeline_run_id,
      enable_cache       |-> request.step.config.enable_cache,
      code_hash          |-> request.step.config.code_hash,
      cache_key          |-> request.cache_key,
      start_time         |-> request.start_time,
      end_time           |-> request.end_time,
      entrypoint_name    |-> request.step.config.name,
      parameters         |-> json_dumps_sorted(request.step.config.parameters),
      step_configuration |-> request.step,
      num_outputs        |-> request.step.config.num_outputs,
      status             |-> request.status ]

\* NamedSchema's timestamp column, set when the row is built.
WithUpdated(row, clock) == row @@ [updated |-> clock]

\* An update that also takes the name and the cache key the model has set.
update_AllFields(self, step_update, clock) ==
    LET taken == "status" \in step_update.fields_set
                 /\ step_update.status # None
    IN  [ self EXCEPT
            !.status    = IF taken THEN step_update.status[1] ELSE @,
            !.end_time  = IF taken THEN step_update.end_time ELSE @,
            !.name      = IF "name" \in step_update.fields_set
                          THEN step_update.name[1] ELSE @,
            !.cache_key = IF "cache_key" \in step_update.fields_set
                          THEN step_update.cache_key ELSE @,
            !.updated   = clock ]

\* An update that takes the end time whenever the model has one set.
update_EndTimeWhenSet(self, step_update, clock) ==
    LET taken == "status" \in step_update.fields_set
                 /\ step_update.status # None
    IN  [ self EXCEPT
            !.status   = IF taken THEN step_update.status[1] ELSE @,
            !.end_time = IF "end_time" \in step_update.fields_set
                         THEN step_update.end_time ELSE @,
            !.updated  = clock ]

\* StepRunSchema.update: only the execution status (and its end time) and the
\* updated timestamp change; the status is taken whenever the update model
\* has one set, whatever the stored status is.
update(self, step_update, clock) ==
    LET taken == "status" \in step_update.fields_set
                 /\ step_update.status # None
    IN  [ self EXCEPT
            !.status   = IF taken THEN step_update.status[1] ELSE @,
            !.end_time = IF taken THEN step_update.end_time ELSE @,
            !.updated  = clock ]

\* The stored status of a step run; "NONE" while the table has no row for it.
StatusOf(s) == IF s \in DOMAIN step_run THEN step_run[s].status ELSE "NONE"

\* The table with the row of step s added.
Insert(table, s, row) ==
    [x \in DOMAIN table \cup {s} |-> IF x = s THEN row ELSE table[x]]

\* --------------------------------------------- image lookup (source)

\* Largest number of images the provider returns for the name filter.
MaxImages == 3

ImageIds == 1..MaxImages
CreationDates == 1..MaxImages

\* response["Images"] of describe_images: images with distinct ids, in the
\* order the provider returns them.
DescribeImagesResponses ==
    { r \in UNION { [1..n -> [ImageId : ImageIds, CreationDate : CreationDates]]
                      : n \in 0..MaxImages } :
        \A i, j \in 1..Len(r) : i # j => r[i].ImageId # r[j].ImageId }

\* The values AWSVMOrchestrator.instance_image is configured with: None (the
\* default), the empty string (written 0) or an image id.
ConfiguredImages == Optional({0} \cup ImageIds)

\* Truth value of an Optional[str] in `x or y`: None and "" are false.
Truthy(x) == x # None /\ x # Some(0)

\* An image lookup that takes the first image returned.
NewestIndex_First(images) == 1

\* sorted(images, key=itemgetter("CreationDate"), reverse=True)[0]: the sort
\* is stable, so among the images of the greatest date the first returned
\* one comes first.
NewestIndex(images) ==
    CHOOSE i \in 1..Len(images) :
        /\ \A j \in 1..Len(images) :
              images[j].CreationDate <= images[i].CreationDate
        /\ \A j \in 1..(i - 1) :
              images[j].CreationDate < images[i].CreationDate

\* A lookup that returns the empty id when no image matches.
get_image_from_family_EmptyId(images) ==
    IF images = <<>> THEN Some(0) ELSE Some(images[NewestIndex(images)].ImageId)

\* get_image_from_family: the AMI id, or None when image_details[0] raises
\* IndexError on an empty list.
get_image_from_family(images) ==
    IF images = <<>> THEN None ELSE Some(images[NewestIndex(images)].ImageId)

\* ------------------------------------------- dependency resolver

\* Largest number of steps a pipeline specification declares.
MaxSpecSteps == 3

\* A pipeline specification: its steps in declaration order, each given by
\* the set of steps its inputs are bound to. A bound step that the
\* specification does not declare is written as the next number after the
\* declared ones. The specification with the bindings g of n declared
\* steps, in which step d (if any) also has an input bound to an undeclared
\* step:
PipelineSpec(n, g, d) ==
    [s \in 1..n |-> IF s = d THEN g[s] \cup {n + 1} ELSE g[s]]

Unresolved == [state |-> "unresolved", order |-> <<>>]
ResolutionError == [state |-> "ResolutionError", order |-> <<>>]

Least(S) == CHOOSE x \in S : \A y \in S : x <= y

Placed(order) == { order[i] : i \in 1..Len(order) }

\* A resolver that places the steps in declaration order.
NextPlaced_Declared(spec, order) == Least(DOMAIN spec \ Placed(order))

\* A resolver that takes, among the steps whose producers are all placed,
\* the one declared last.
NextPlaced_DeclaredLast(spec, order) ==
    LET ready == { s \in DOMAIN spec \ Placed(order) : spec[s] \subseteq Placed(order) }
    IN  CHOOSE x \in ready : \A y \in ready : y <= x

\* The step placed next: among the steps whose producers are all placed
\* already, the one declared first.
NextPlaced(spec, order) ==
    Least({ s \in DOMAIN spec \ Placed(order) : spec[s] \subseteq Placed(order) })

\* The ordering is extended step by step; when steps are left and none of
\* them has all its producers placed, the graph has a cycle.
RECURSIVE Place(_, _)
Place(spec, order) ==
    IF Placed(order) = DOMAIN spec
    THEN [state |-> "resolved", order |-> order]
    ELSE IF \A s \in DOMAIN spec \ Placed(order) : ~(spec[s] \subseteq Placed(order))
         THEN ResolutionError
         ELSE Place(spec, Append(order, NextPlaced(spec, order)))

\* resolve(pipelineSpec): ResolutionError when an input is bound to a step
\* that is not declared or when the graph has a cycle, and otherwise the
\* topological ordering with ties broken by declaration order.
resolve(spec) ==
    IF \E s \in DOMAIN spec : ~(spec[s] \subseteq DOMAIN spec)
    THEN ResolutionError
    ELSE Place(spec, <<>>)

\* ------------------------------------------------ pipeline inputs

\* The DAGs the orchestrator is run on: every edge goes from an earlier to a
\* later step of sorted_steps, which is what a topological ordering is.
ForwardDags == { p \in [Steps -> SUBSET Steps] : \A s \in Steps : p[s] \subseteq 1..(s - 1) }

\* The ordering of all the steps by their number.
RECURSIVE Ascending(_)
Ascending(n) == IF n = 0 THEN <<>> ELSE Append(Ascending(n - 1), n)

\* Configuration of a step (zenml.config.step_configurations.Step.config).
StepConfig(s, cache) ==
    [ name         |-> s,
      enable_cache |-> cache,
      code_hash    |-> Some(s),
      parameters   |-> << <<2, s>>, <<1, s>> >>,
      num_outputs  |-> MaxOutputs ]

\* Direct and transitive parents of a step in the DAG.
RECURSIVE AncestorsUpTo(_, _)
AncestorsUpTo(s, n) ==
    IF n = 0 THEN {}
    ELSE parents[s] \cup UNION { AncestorsUpTo(p, n - 1) : p \in parents[s] \cap Steps }
Ancestors(s) == AncestorsUpTo(s, NumSteps)

\* No experiment tracker hook has run: every step has the source path
\* <module>.<class> with the class its name is taken from, and the tracker
\* holds no run name and has stopped no run.
NoTracker ==
    /\ step_source = [s \in Steps |-> <<0, s>>]
    /\ tracked = [s \in Steps |-> "none"]
    /\ neptune_run = [run_name |-> None, stops |-> 0]

\* ------------------------------------------------------------- Init

\* The images of the lookup scenario: creation dates T1, Tn, Tn-1, ..., T2
\* in the order returned ([T1, T3, T2] for three images).
ScenarioImages ==
    [i \in 1..MaxImages |->
        [ImageId |-> i, CreationDate |-> IF i = 1 THEN 1 ELSE MaxImages + 2 - i]]

\* State after construction, before prepare_or_run_pipeline is called: no
\* instance, no row. The orchestrator has the default instance_image (None);
\* the provider has no matching image or those of the scenario; caching is
\* enabled or disabled for the steps of the pipeline; the store holds a
\* COMPLETED prior step run for the cache key of every step, or for none.
Init ==
    /\ parents \in ForwardDags
    /\ sorted_steps = Ascending(NumSteps)
    /\ \E cache \in BOOLEAN : step_config = [s \in Steps |-> StepConfig(s, cache)]
    /\ self_instance_image = None
    /\ ec2_images \in {<<>>, ScenarioImages}
    /\ instance_image = None
    /\ pc = "resolve_image"
    /\ idx = 1
    /\ dispatched = [s \in Steps |-> 0]
    /\ instances = [s \in Steps |-> 0]
    /\ script = [s \in Steps |-> "none"]
    /\ exit_code = [s \in Steps |-> None]
    /\ backend_result = [s \in Steps |-> "none"]
    /\ input_artifacts = [s \in Steps |-> <<>>]
    /\ attempt = 1
    /\ last_update = None
    /\ NoTracker
    /\ step_run = <<>>
    /\ output_artifacts = [s \in Steps |-> [n |-> 0, from |-> "none"]]
    /\ \E prior \in {"none", "COMPLETED"} : cached_run = [s \in Steps |-> prior]
    /\ run_status = "running"
    /\ now = 0
    /\ pipeline_spec = <<>>
    /\ resolution = Unresolved

\* ------------------------------- prepare_or_run_pipeline (source)

orch_vars == <<pc, idx, instance_image, dispatched>>
remote_vars == <<instances, script, exit_code, backend_result>>
store_vars == <<step_run, output_artifacts, run_status>>
run_inputs == <<parents, sorted_steps, step_config, self_instance_image,
                ec2_images, cached_run, now, pipeline_spec, resolution,
                input_artifacts, last_update, step_source, tracked, neptune_run>>
input_vars == <<run_inputs, attempt>>

\* Line 282: instance_image = self.instance_image or get_image_from_family().
\* The lookup raises (IndexError) when the provider returns no image.
ResolveImage ==
    /\ pc = "resolve_image"
    /\ \/ /\ Truthy(self_instance_image)
          /\ instance_image' = self_instance_image
          /\ pc' = "loop"
       \/ /\ ~Truthy(self_instance_image)
          /\ LET ami == get_image_from_family(ec2_images)
             IN  /\ instance_image' = ami
                 /\ pc' = IF ami = None THEN "raised" ELSE "loop"
    /\ UNCHANGED <<idx, dispatched, remote_vars, store_vars, input_vars>>

\* A loop that takes the same step again.
NextIteration_SameStep(i) == i

\* Where the loop goes after the body for sorted_steps[i] has run.
NextIteration(i) == i + 1

\* Lines 294-321, create_instance returns and the log line is written: one
\* create_instances call is made for sorted_steps[idx], whatever the stored
\* status of the step or of its parents; the provider starts max_count
\* instances (MinCount = MaxCount), each running the bootstrap script.
CreateInstance ==
    /\ pc = "loop"
    /\ idx <= Len(sorted_steps)
    /\ LET step == sorted_steps[idx]
       IN  /\ dispatched' = [dispatched EXCEPT ![step] = @ + 1]
           /\ instances' = [instances EXCEPT ![step] = @ + max_count]
           /\ script' = [script EXCEPT ![step] = "docker_run"]
    /\ pc' = "sleep"
    /\ UNCHANGED <<idx, instance_image, exit_code, backend_result, store_vars,
                   input_vars>>

\* Lines 306-317, create_instance raises (capacity, quota, credentials):
\* nothing catches it, prepare_or_run_pipeline ends with the exception and
\* no instance was started for the step.
CreateInstanceRaises ==
    /\ pc = "loop"
    /\ idx <= Len(sorted_steps)
    /\ dispatched' = [dispatched EXCEPT ![sorted_steps[idx]] = @ + 1]
    /\ pc' = "raised"
    /\ UNCHANGED <<idx, instance_image, remote_vars, store_vars, input_vars>>

\* Lines 306-321, create_instance returns and the log line raises: it reads
\* instance.name of what create_instance returned (annotated dict, documented
\* as an instance object), and raises AttributeError when that has no such
\* attribute. The instance is running; prepare_or_run_pipeline ends.
LogInstanceRaises ==
    /\ pc = "loop"
    /\ idx <= Len(sorted_steps)
    /\ LET step == sorted_steps[idx]
       IN  /\ dispatched' = [dispatched EXCEPT ![step] = @ + 1]
           /\ instances' = [instances EXCEPT ![step] = @ + max_count]
           /\ script' = [script EXCEPT ![step] = "docker_run"]
    /\ pc' = "raised"
    /\ UNCHANGED <<idx, instance_image, exit_code, backend_result, store_vars,
                   input_vars>>

\* Line 322: time.sleep(1000) returns and the loop takes the next step; the
\* instance is not polled, it may still be running.
SleepReturns ==
    /\ pc = "sleep"
    /\ idx' = NextIteration(idx)
    /\ pc' = "loop"
    /\ UNCHANGED <<instance_image, dispatched, remote_vars, store_vars, input_vars>>

\* The loop is exhausted: prepare_or_run_pipeline returns.
Return ==
    /\ pc = "loop"
    /\ idx > Len(sorted_steps)
    /\ pc' = "returned"
    /\ UNCHANGED <<idx, instance_image, dispatched, remote_vars, store_vars, input_vars>>

\* ----------------------- the step launcher inside the container

\* A cache key made of the components in the order they were supplied.
CacheKey_AsSupplied(code_hash, parameters, inputs) ==
    <<code_hash, parameters, inputs>>

\* hash(stepSourceHash, sortedParameterValues, sortedInputArtifactIdentities):
\* the hash is taken to be free of collisions, so the key is written as the
\* triple that is hashed; parameters and inputs are ordered by name.
CacheKey(code_hash, parameters, inputs) ==
    <<code_hash, json_dumps_sorted(parameters), SortItems(inputs)>>

\* The request the launcher sends to create the row of step s.
StepRunRequest(s) ==
    [ name            |-> s,
      pipeline_run_id |-> "run",
      step            |-> [config |-> step_config[s]],
      status          |-> "PENDING",
      cache_key       |-> Some(CacheKey(step_config[s].code_hash,
                                        step_config[s].parameters,
                                        input_artifacts[s])),
      start_time      |-> Some(now),
      end_time        |-> None ]

\* A StepRunUpdateModel that sets the status and the end time.
StatusUpdate(status, end_time) ==
    [ fields_set |-> {"status", "end_time"},
      status     |-> Some(status),
      end_time   |-> end_time ]

\* The entrypoint starts in the container of step s: it creates the step run
\* in PENDING.
CreateStepRun(s) ==
    /\ script[s] = "docker_run"
    /\ s \notin DOMAIN step_run
    /\ step_run' = Insert(step_run, s, WithUpdated(from_request(StepRunRequest(s)), now))
    /\ UNCHANGED <<orch_vars, remote_vars, output_artifacts, run_status, input_vars>>

\* Whether the step run of s is served from the cache: caching is enabled in
\* its row and the prior step run of the pipeline with its cache key
\* (getStepRunByCacheKey) is COMPLETED.
CacheHit(s) == step_run[s].enable_cache /\ cached_run[s] = "COMPLETED"

\* The step run leaves PENDING: to CACHED, taking the output bindings of the
\* prior run, on a cache hit, and to RUNNING otherwise.
CacheDecision(s) ==
    /\ script[s] = "docker_run"
    /\ StatusOf(s) = "PENDING"
    /\ IF CacheHit(s)
       THEN /\ step_run' = [step_run EXCEPT
                    ![s] = update(@, StatusUpdate("CACHED", Some(now)), now)]
            /\ output_artifacts' = [output_artifacts EXCEPT
                    ![s] = [n |-> step_run[s].num_outputs, from |-> "prior"]]
       ELSE /\ step_run' = [step_run EXCEPT
                    ![s] = update(@, StatusUpdate("RUNNING", None), now)]
            /\ UNCHANGED output_artifacts
    /\ UNCHANGED <<orch_vars, remote_vars, run_status, input_vars>>

\* The status a RUNNING step run ends with: COMPLETED only when the step
\* reported success and every declared output is bound to an artifact.
FinalStatus(success, bound, declared) ==
    IF success /\ bound = declared THEN "COMPLETED" ELSE "FAILED"

\* The step function of s returns or raises: the outputs it produced are
\* bound to new artifacts and the final status is written.
FinishStep(s) ==
    /\ script[s] = "docker_run"
    /\ StatusOf(s) = "RUNNING"
    /\ \E success \in BOOLEAN :
       \E bound \in 0..step_run[s].num_outputs :
          /\ ~success => bound = 0
          /\ backend_result' = [backend_result EXCEPT
                  ![s] = IF success THEN "SUCCESS" ELSE "FAILURE"]
          /\ output_artifacts' = [output_artifacts EXCEPT
                  ![s] = [n |-> bound, from |-> IF bound = 0 THEN "none" ELSE "run"]]
          /\ step_run' = [step_run EXCEPT
                  ![s] = update(@, StatusUpdate(
                             FinalStatus(success, bound, step_run[s].num_outputs),
                             Some(now)), now)]
    /\ UNCHANGED <<orch_vars, instances, script, exit_code, run_status, input_vars>>

\* ------------------------------ the bootstrap script (source)

\* A script that ends at the first command that fails (as under `set -e`).
AfterDockerRun_ErrExit(code) == IF code = 0 THEN "terminate" ELSE "aborted"

\* Where the script goes when `docker run` returned with an exit code: it is
\* a plain sequence of commands under #!/bin/bash, so the next lines run
\* whatever the code is.
AfterDockerRun(code) == "terminate"

\* get_startup_script, line 131-133: `docker run` returns when the container
\* exits, with the entrypoint's exit code: 0 after a COMPLETED or CACHED step
\* run, 1 after a FAILED one.
ContainerExits(s) ==
    /\ script[s] = "docker_run"
    /\ StatusOf(s) \in TerminalStatus
    /\ LET code == IF StatusOf(s) = "FAILED" THEN 1 ELSE 0
       IN  /\ exit_code' = [exit_code EXCEPT ![s] = Some(code)]
           /\ script' = [script EXCEPT ![s] = AfterDockerRun(code)]
    /\ UNCHANGED <<orch_vars, instances, backend_result, store_vars, input_vars>>

\* Lines 134-135: the script has no `set -e`, so after docker run returned,
\* with any exit code, it reads the instance id and terminates the instance.
SelfTerminate(s) ==
    /\ script[s] = "terminate"
    /\ script' = [script EXCEPT ![s] = "terminated"]
    /\ UNCHANGED <<orch_vars, instances, exit_code, backend_result, store_vars,
                   input_vars>>

\* The instance of step s is in the running state: its bootstrap script has
\* started and has not terminated the instance yet.
InstanceRunning(s) == script[s] \in {"docker_run", "terminate"}

\* delete_instance (lines 85-97): the body reads instance_client, project_id,
\* zone and machine_name, none of which is defined in the module, so a call
\* raises NameError and leaves the instance in the state it was in. No code
\* of the orchestrator calls it.
delete_instance(instance_state) ==
    [raised |-> "NameError", instance_state |-> instance_state]

\* ------------------------------------------- the pipeline run

\* A run status that one successful step run is enough for.
PipelineRunStatus_AnySucceeded(statuses) ==
    IF statuses \cap {"COMPLETED", "CACHED"} # {} THEN "completed" ELSE "failed"

\* Status of a pipeline run all of whose step runs are terminal.
PipelineRunStatus(statuses) ==
    IF statuses \subseteq {"COMPLETED", "CACHED"} THEN "completed" ELSE "failed"

\* Once every step run is terminal the pipeline run is marked.
MarkPipelineRun ==
    /\ run_status = "running"
    /\ \A s \in Steps : StatusOf(s) \in TerminalStatus
    /\ run_status' = PipelineRunStatus({StatusOf(s) : s \in Steps})
    /\ UNCHANGED <<orch_vars, remote_vars, step_run, output_artifacts, input_vars>>

\* ------------------------------------------------------------- Spec

Next ==
    \/ ResolveImage
    \/ CreateInstance
    \/ CreateInstanceRaises
    \/ LogInstanceRaises
    \/ SleepReturns
    \/ Return
    \/ \E s \in Steps : CreateStepRun(s)
    \/ \E s \in Steps : CacheDecision(s)
    \/ \E s \in Steps : FinishStep(s)
    \/ \E s \in Steps : ContainerExits(s)
    \/ \E s \in Steps : SelfTerminate(s)
    \/ MarkPipelineRun

Spec == Init /\ [][Next]_vars

\* ------------------------------------ a run that is cancelled

\* prepare_or_run_pipeline takes no cancellation signal and registers no
\* handler: a run is cancelled by interrupting the process that executes it
\* (KeyboardInterrupt in the loop body or in time.sleep). No except or
\* finally clause encloses the loop, so the call ends there and no other
\* statement of the orchestrator runs; the instances are separate machines.
Cancel ==
    /\ pc \in {"loop", "sleep"}
    /\ pc' = "cancelled"
    /\ UNCHANGED <<idx, instance_image, dispatched, remote_vars, store_vars, input_vars>>

NextCancel ==
    \/ Next
    \/ Cancel

SpecCancel == Init /\ [][NextCancel]_vars

\* --------------------------- a run that crashes and is resumed

\* Largest number of attempts of a run (the first one and its resumptions).
MaxAttempts == 2

\* The process executing prepare_or_run_pipeline dies: the locals (the loop
\* position, the resolved image) are lost; instances and the store are not.
Crash ==
    /\ pc \in {"resolve_image", "loop", "sleep"}
    /\ pc' = "crashed"
    /\ UNCHANGED <<idx, instance_image, dispatched, remote_vars, store_vars, input_vars>>

\* The run is resumed: the only entry point is prepare_or_run_pipeline, which
\* is called again with the same sorted_steps. It takes no position to resume
\* from and reads no step run, so it starts at line 277 with fresh locals.
Resume ==
    /\ pc = "crashed"
    /\ attempt < MaxAttempts
    /\ attempt' = attempt + 1
    /\ pc' = "resolve_image"
    /\ idx' = 1
    /\ instance_image' = None
    /\ UNCHANGED <<dispatched, remote_vars, store_vars, run_inputs>>

NextResume ==
    \/ Next
    \/ Crash
    \/ Resume

SpecResume == Init /\ [][NextResume]_vars

\* ------------------------------------------- resolving the image

\* prepare_or_run_pipeline is called on an orchestrator with any configured
\* image, while the provider returns any list of images for the name filter.
InitImage ==
    /\ self_instance_image \in ConfiguredImages
    /\ ec2_images \in DescribeImagesResponses
    /\ parents = [s \in Steps |-> {}]
    /\ sorted_steps = Ascending(NumSteps)
    /\ step_config = [s \in Steps |-> StepConfig(s, TRUE)]
    /\ instance_image = None
    /\ pc = "resolve_image"
    /\ idx = 1
    /\ dispatched = [s \in Steps |-> 0]
    /\ instances = [s \in Steps |-> 0]
    /\ script = [s \in Steps |-> "none"]
    /\ exit_code = [s \in Steps |-> None]
    /\ backend_result = [s \in Steps |-> "none"]
    /\ input_artifacts = [s \in Steps |-> <<>>]
    /\ attempt = 1
    /\ last_update = None
    /\ NoTracker
    /\ step_run = <<>>
    /\ output_artifacts = [s \in Steps |-> [n |-> 0, from |-> "none"]]
    /\ cached_run = [s \in Steps |-> "none"]
    /\ run_status = "running"
    /\ now = 0
    /\ pipeline_spec = <<>>
    /\ resolution = Unresolved

NextImage == ResolveImage

SpecImage == InitImage /\ [][NextImage]_vars

\* ------------------------------------------------ cache keys

\* Dicts of a step's parameters, and of its input artifacts, as items in the
\* order supplied: the same two entries in both orders, one value changed,
\* one entry missing.
KeyItems ==
    { << <<1, 0>>, <<2, 0>> >>, << <<2, 0>>, <<1, 0>> >>,
      << <<1, 1>>, <<2, 0>> >>, << <<2, 0>>, <<1, 1>> >>,
      << <<1, 0>> >> }

\* Source hashes of the steps.
CodeHashes == {1, 2}

\* Every step has been dispatched and its entrypoint is about to create its
\* step run; the steps have any source hash, parameters and input artifacts.
InitKey ==
    /\ \E h \in [Steps -> CodeHashes] : \E ps \in [Steps -> KeyItems] :
          step_config = [s \in Steps |->
                            [StepConfig(s, TRUE) EXCEPT !.code_hash = Some(h[s]),
                                                        !.parameters = ps[s]]]
    /\ input_artifacts \in [Steps -> KeyItems]
    /\ parents = [s \in Steps |-> {}]
    /\ sorted_steps = Ascending(NumSteps)
    /\ self_instance_image = Some(1)
    /\ ec2_images = <<>>
    /\ instance_image = Some(1)
    /\ pc = "returned"
    /\ idx = NumSteps + 1
    /\ dispatched = [s \in Steps |-> 1]
    /\ instances = [s \in Steps |-> max_count]
    /\ script = [s \in Steps |-> "docker_run"]
    /\ exit_code = [s \in Steps |-> None]
    /\ backend_result = [s \in Steps |-> "none"]
    /\ attempt = 1
    /\ last_update = None
    /\ NoTracker
    /\ step_run = <<>>
    /\ output_artifacts = [s \in Steps |-> [n |-> 0, from |-> "none"]]
    /\ cached_run = [s \in Steps |-> "none"]
    /\ run_status = "running"
    /\ now = 0
    /\ pipeline_spec = <<>>
    /\ resolution = Unresolved

NextKey == \E s \in Steps : CreateStepRun(s)

SpecKey == InitKey /\ [][NextKey]_vars

\* ------------------------------ the Neptune experiment tracker

\* Names of steps and of the classes of steps.
StepNames == 1..(NumSteps + 1)

\* source.split(".")[-1]: the last of the dot-separated parts of a path.
LastPart(source) == source[Len(source)]

\* NeptuneExperimentTracker._is_last_step: the name of the step in its
\* configuration (info.config.name) is compared with the last part of the
\* source path of the last StepSpec of the pipeline (spec.steps[-1]).
is_last_step(config_name, spec_steps) ==
    config_name = LastPart(spec_steps[Len(spec_steps)])

\* A pipeline run starts with a tracker that no hook was called on. The
\* steps are declared in the order of their numbers; the source path of a
\* step is <module>.<class>; its name is the name of its class or one given
\* to it, and no two steps of the pipeline have the same name.
InitNeptune ==
    /\ \E class \in [Steps -> StepNames] :
          step_source = [s \in Steps |-> <<0, class[s]>>]
    /\ \E name \in [Steps -> StepNames] :
          /\ \A a, b \in Steps : a # b => name[a] # name[b]
          /\ step_config = [s \in Steps |-> [StepConfig(s, TRUE) EXCEPT !.name = name[s]]]
    /\ tracked = [s \in Steps |-> "none"]
    /\ neptune_run = [run_name |-> None, stops |-> 0]
    /\ parents = [s \in Steps |-> {}]
    /\ sorted_steps = Ascending(NumSteps)
    /\ self_instance_image = None
    /\ ec2_images = <<>>
    /\ instance_image = None
    /\ pc = "idle"
    /\ idx = 1
    /\ dispatched = [s \in Steps |-> 0]
    /\ instances = [s \in Steps |-> 0]
    /\ script = [s \in Steps |-> "none"]
    /\ exit_code = [s \in Steps |-> None]
    /\ backend_result = [s \in Steps |-> "none"]
    /\ input_artifacts = [s \in Steps |-> <<>>]
    /\ attempt = 1
    /\ last_update = None
    /\ step_run = <<>>
    /\ output_artifacts = [s \in Steps |-> [n |-> 0, from |-> "none"]]
    /\ cached_run = [s \in Steps |-> "none"]
    /\ run_status = "running"
    /\ now = 0
    /\ pipeline_spec = <<>>
    /\ resolution = Unresolved

tracker_frame == <<parents, sorted_steps, step_config, self_instance_image,
                   ec2_images, instance_image, pc, idx, dispatched, instances,
                   script, exit_code, output_artifacts, cached_run, run_status,
                   backend_result, input_artifacts, attempt, step_run, now,
                   pipeline_spec, resolution, last_update, step_source>>

\* prepare_step_run, called before step s runs: the run name (with the
\* token, the project and the tags) is stored in run_state.
PrepareStepRun(s) ==
    /\ tracked[s] = "none"
    /\ tracked' = [tracked EXCEPT ![s] = "prepared"]
    /\ neptune_run' = [neptune_run EXCEPT !.run_name = Some("run")]
    /\ UNCHANGED tracker_frame

\* cleanup_step_run, called after step s ran: when _is_last_step holds for
\* it, the active run is synced and stopped.
CleanupStepRun(s) ==
    /\ tracked[s] = "prepared"
    /\ tracked' = [tracked EXCEPT ![s] = "cleaned"]
    /\ neptune_run' =
          IF is_last_step(step_config[s].name, step_source)
          THEN [neptune_run EXCEPT !.stops = @ + 1]
          ELSE neptune_run
    /\ UNCHANGED tracker_frame

NextNeptune ==
    \/ \E s \in Steps : PrepareStepRun(s)
    \/ \E s \in Steps : CleanupStepRun(s)

SpecNeptune == InitNeptune /\ [][NextNeptune]_vars

\* ------------------------- the step run table under any caller

\* Parameter dicts of a request, as items in insertion order.
ParameterDicts == { <<>>, << <<1, 0>> >>, << <<1, 0>>, <<2, 0>> >>, << <<2, 0>>, <<1, 0>> >> }

\* The StepRunRequestModels the table is sent for a step.
StepRunRequests(s) ==
    { [ name            |-> s,
        pipeline_run_id |-> "run",
        step            |-> [config |-> [ name         |-> s,
                                          enable_cache |-> cache,
                                          code_hash    |-> Some(s),
                                          parameters   |-> params,
                                          num_outputs  |-> MaxOutputs ]],
        status          |-> status,
        cache_key       |-> key,
        start_time      |-> Some(now),
        end_time        |-> None ] :
        cache \in BOOLEAN, params \in ParameterDicts, status \in ExecutionStatus,
        key \in Optional({s}) }

\* The StepRunUpdateModels (every field optional; a field that is not set
\* reads None): the status and end time, and fields update does not read.
StepRunUpdates ==
    { [ fields_set |-> fs,
        status     |-> IF "status" \in fs THEN st ELSE None,
        end_time   |-> IF "end_time" \in fs THEN et ELSE None,
        name       |-> IF "name" \in fs THEN Some(0) ELSE None,
        cache_key  |-> IF "cache_key" \in fs THEN Some(0) ELSE None ] :
        fs \in SUBSET {"status", "end_time", "name", "cache_key"},
        st \in Optional(ExecutionStatus), et \in Optional({now}) }

\* The table holds no row; nothing is being orchestrated.
InitStore ==
    /\ parents = [s \in Steps |-> {}]
    /\ sorted_steps = Ascending(NumSteps)
    /\ step_config = [s \in Steps |-> StepConfig(s, TRUE)]
    /\ self_instance_image = None
    /\ ec2_images = <<>>
    /\ instance_image = None
    /\ pc = "idle"
    /\ idx = 1
    /\ dispatched = [s \in Steps |-> 0]
    /\ instances = [s \in Steps |-> 0]
    /\ script = [s \in Steps |-> "none"]
    /\ exit_code = [s \in Steps |-> None]
    /\ backend_result = [s \in Steps |-> "none"]
    /\ input_artifacts = [s \in Steps |-> <<>>]
    /\ attempt = 1
    /\ last_update = None
    /\ NoTracker
    /\ step_run = <<>>
    /\ output_artifacts = [s \in Steps |-> [n |-> 0, from |-> "none"]]
    /\ cached_run = [s \in Steps |-> "none"]
    /\ run_status = "running"
    /\ now = 0
    /\ pipeline_spec = <<>>
    /\ resolution = Unresolved

run_frame == <<parents, sorted_steps, step_config, self_instance_image,
               ec2_images, instance_image, pc, idx, dispatched, instances,
               script, exit_code, output_artifacts, cached_run, run_status,
               backend_result, input_artifacts, attempt, step_source, tracked,
               neptune_run>>

table_frame == <<run_frame, pipeline_spec, resolution>>

\* A step run is created from a request: the row is from_request(request).
StoreCreateStepRun ==
    /\ 1 \notin DOMAIN step_run
    /\ \E request \in StepRunRequests(1) :
          step_run' = Insert(step_run, 1, WithUpdated(from_request(request), now))
    /\ UNCHANGED <<table_frame, now, last_update>>

\* A step run is updated: its row becomes row.update(step_update).
StoreUpdateStepRun ==
    /\ 1 \in DOMAIN step_run
    /\ \E step_update \in StepRunUpdates :
          /\ step_run' = [step_run EXCEPT ![1] = update(@, step_update, now)]
          /\ last_update' = Some(step_update)
    /\ UNCHANGED <<table_frame, now>>

\* Time passes.
Tick ==
    /\ now < MaxTime
    /\ now' = now + 1
    /\ UNCHANGED <<table_frame, step_run, last_update>>

NextStore ==
    \/ StoreCreateStepRun
    \/ StoreUpdateStepRun
    \/ Tick

SpecStore == InitStore /\ [][NextStore]_vars

\* The status changes of the step run state machine.
AllowedTransitions ==
    { <<"PENDING", "CACHED">>, <<"PENDING", "RUNNING">>, <<"PENDING", "FAILED">>,
      <<"RUNNING", "COMPLETED">>, <<"RUNNING", "FAILED">> }

\* C2: the status of a stored step run changes only along the transitions
\* of the state machine; in particular no update changes the status of a
\* CACHED, COMPLETED or FAILED step run.
C2_StatusFollowsStateMachine ==
    [][\A s \in DOMAIN step_run :
          (s \in DOMAIN step_run' /\ step_run'[s].status # step_run[s].status)
              => <<step_run[s].status, step_run'[s].status>> \in AllowedTransitions]_vars

\* ------------------------------------------ resolving a specification

\* A specification has been written and not yet resolved.
InitResolve ==
    /\ parents = [s \in Steps |-> {}]
    /\ sorted_steps = Ascending(NumSteps)
    /\ step_config = [s \in Steps |-> StepConfig(s, TRUE)]
    /\ self_instance_image = None
    /\ ec2_images = <<>>
    /\ instance_image = None
    /\ pc = "idle"
    /\ idx = 1
    /\ dispatched = [s \in Steps |-> 0]
    /\ instances = [s \in Steps |-> 0]
    /\ script = [s \in Steps |-> "none"]
    /\ exit_code = [s \in Steps |-> None]
    /\ backend_result = [s \in Steps |-> "none"]
    /\ input_artifacts = [s \in Steps |-> <<>>]
    /\ attempt = 1
    /\ last_update = None
    /\ NoTracker
    /\ step_run = <<>>
    /\ output_artifacts = [s \in Steps |-> [n |-> 0, from |-> "none"]]
    /\ cached_run = [s \in Steps |-> "none"]
    /\ run_status = "running"
    /\ now = 0
    /\ \E n \in 1..MaxSpecSteps : \E d \in 0..n : \E g \in [1..n -> SUBSET (1..n)] :
          pipeline_spec = PipelineSpec(n, g, d)
    /\ resolution = Unresolved

\* resolve is applied to the specification.
Resolve ==
    /\ resolution = Unresolved
    /\ resolution' = resolve(pipeline_spec)
    /\ UNCHANGED <<run_frame, step_run, now, pipeline_spec, last_update>>

NextResolve == Resolve

SpecResolve == InitResolve /\ [][NextResolve]_vars

\* ------------------------ a pipeline run from its specification

\* A specification of NumSteps steps has been submitted: it is not resolved,
\* no pipeline run exists for it and prepare_or_run_pipeline was not called.
InitPipeline ==
    /\ \E g \in [Steps -> SUBSET Steps] : \E d \in 0..NumSteps :
          pipeline_spec = PipelineSpec(NumSteps, g, d)
    /\ resolution = Unresolved
    /\ parents = [s \in Steps |-> {}]
    /\ sorted_steps = <<>>
    /\ step_config = [s \in Steps |-> StepConfig(s, TRUE)]
    /\ self_instance_image = None
    /\ ec2_images = ScenarioImages
    /\ instance_image = None
    /\ pc = "idle"
    /\ idx = 1
    /\ dispatched = [s \in Steps |-> 0]
    /\ instances = [s \in Steps |-> 0]
    /\ script = [s \in Steps |-> "none"]
    /\ exit_code = [s \in Steps |-> None]
    /\ backend_result = [s \in Steps |-> "none"]
    /\ input_artifacts = [s \in Steps |-> <<>>]
    /\ attempt = 1
    /\ last_update = None
    /\ NoTracker
    /\ step_run = <<>>
    /\ output_artifacts = [s \in Steps |-> [n |-> 0, from |-> "none"]]
    /\ \E prior \in {"none", "COMPLETED"} : cached_run = [s \in Steps |-> prior]
    /\ run_status = "none"
    /\ now = 0

\* A run that is started whatever resolve returned.
Runnable_Always(res) == TRUE

\* Whether a run is started for what resolve returned.
Runnable(res) == res.state = "resolved"

\* The specification resolved: the pipeline run is created and the
\* orchestrator is called with the ordering and the DAG of the specification.
StartRun ==
    /\ pc = "idle"
    /\ resolution # Unresolved
    /\ Runnable(resolution)
    /\ run_status' = "running"
    /\ sorted_steps' = resolution.order
    /\ parents' = pipeline_spec
    /\ pc' = "resolve_image"
    /\ UNCHANGED <<idx, instance_image, dispatched, remote_vars, step_run,
                   output_artifacts, step_config, self_instance_image,
                   ec2_images, cached_run, now, pipeline_spec, resolution,
                   input_artifacts, attempt, last_update, step_source, tracked,
                   neptune_run>>

\* resolve failed: the submission ends with the ResolutionError.
RejectRun ==
    /\ pc = "idle"
    /\ resolution = ResolutionError
    /\ pc' = "rejected"
    /\ UNCHANGED <<idx, instance_image, dispatched, remote_vars, store_vars, input_vars>>

NextPipeline ==
    \/ Resolve
    \/ StartRun
    \/ RejectRun
    \/ Next

SpecPipeline == InitPipeline /\ [][NextPipeline]_vars

\* The steps reached from s along input bindings, in at most n steps.
RECURSIVE ProducersUpTo(_, _, _)
ProducersUpTo(spec, s, n) ==
    IF n = 0 \/ s \notin DOMAIN spec THEN {}
    ELSE spec[s] \cup UNION { ProducersUpTo(spec, p, n - 1) : p \in spec[s] }

HasCycle(spec) == \E s \in DOMAIN spec : s \in ProducersUpTo(spec, s, Len(spec))

WellBound(spec) == \A s \in DOMAIN spec : spec[s] \subseteq DOMAIN spec

Position(order, s) == CHOOSE i \in 1..Len(order) : order[i] = s

\* C5: for an acyclic specification resolve returns an ordering that holds
\* every step exactly once, each step after all the steps producing its
\* inputs; for a specification with a cycle it fails with ResolutionError.
C5_ResolveOrdersOrFails ==
    resolution # Unresolved =>
        /\ HasCycle(pipeline_spec) => resolution = ResolutionError
        /\ (~HasCycle(pipeline_spec) /\ WellBound(pipeline_spec)) =>
              /\ resolution.state = "resolved"
              /\ Len(resolution.order) = Len(pipeline_spec)
              /\ Placed(resolution.order) = DOMAIN pipeline_spec
              /\ \A s \in DOMAIN pipeline_spec : \A p \in pipeline_spec[s] :
                    Position(resolution.order, p) < Position(resolution.order, s)

\* C5 witness: a specification of the greatest size in which a step takes
\* an input of a step declared after it has been resolved to an ordering.
C5_Witness ==
    /\ resolution.state = "resolved"
    /\ Len(pipeline_spec) = MaxSpecSteps
    /\ \E s \in DOMAIN pipeline_spec : \E p \in pipeline_spec[s] : p > s

\* ------------------------------------------------ properties of a run

\* prepare_or_run_pipeline has ended and no instance is running.
Quiescent ==
    /\ pc \in {"returned", "raised"}
    /\ \A s \in Steps : script[s] \in {"none", "terminated"}

HasFailedAncestor(s) == \E a \in Ancestors(s) : StatusOf(a) = "FAILED"

ParentsSucceeded(s) == \A p \in parents[s] : StatusOf(p) \in {"CACHED", "COMPLETED"}

\* C1: a step that has a FAILED ancestor is never dispatched: no
\* create_instance call is made and no instance is created for it.
C1_FailedAncestorNeverDispatched ==
    [][\A s \in Steps :
          HasFailedAncestor(s) =>
              dispatched'[s] = dispatched[s] /\ instances'[s] = instances[s]]_vars

\* C3: a step run leaves PENDING, and a step is dispatched, only in a state
\* where every parent step run is CACHED or COMPLETED.
C3_ParentsSucceededBeforeStart ==
    [][\A s \in Steps :
          (\/ StatusOf(s) = "PENDING" /\ StatusOf(s)' # "PENDING"
           \/ dispatched'[s] # dispatched[s])
          => ParentsSucceeded(s)]_vars

\* C4: within one run of prepare_or_run_pipeline at most one create_instance
\* call is made for any step.
C4_DispatchedAtMostOnce == \A s \in Steps : dispatched[s] <= 1

\* C4 witness: the loop has ended after one call for every step.
C4_Witness == pc = "returned" /\ \A s \in Steps : dispatched[s] = 1

\* C6: a pipeline run that is marked COMPLETED or FAILED has only terminal
\* step runs, and it is COMPLETED exactly when each of them is COMPLETED or
\* CACHED.
C6_RunStatusFromStepStatuses ==
    run_status # "running" =>
        /\ \A s \in Steps : StatusOf(s) \in TerminalStatus
        /\ run_status \in {"completed", "failed"}
        /\ run_status = "completed"
             <=> \A s \in Steps : StatusOf(s) \in {"COMPLETED", "CACHED"}

\* C6 witness: a run marked FAILED with a COMPLETED and a FAILED step run.
C6_Witness ==
    /\ run_status = "failed"
    /\ \E s, f \in Steps : StatusOf(s) = "COMPLETED" /\ StatusOf(f) = "FAILED"

\* Some step failed: its dispatch raised or its step run is FAILED.
SomeStepFailed ==
    \E f \in Steps :
        \/ dispatched[f] > 0 /\ instances[f] = 0
        \/ StatusOf(f) = "FAILED"

\* C7: when a step has failed, every step without a FAILED ancestor has
\* still been driven to a terminal status by the time the run is over.
C7_IndependentBranchesFinish ==
    (Quiescent /\ SomeStepFailed) =>
        \A s \in Steps : ~HasFailedAncestor(s) => StatusOf(s) \in TerminalStatus

\* C8: a step with a FAILED ancestor never becomes RUNNING, and ends FAILED.
\* (The rows of the table have no column for a failure reason.)
C8_UpstreamFailureNeverRuns ==
    /\ [][\A s \in Steps :
            (HasFailedAncestor(s) /\ StatusOf(s) # "RUNNING")
                => StatusOf(s)' # "RUNNING"]_vars
    /\ [](\A s \in Steps :
            (Quiescent /\ HasFailedAncestor(s)) => StatusOf(s) = "FAILED")

\* C9: a step with caching enabled whose cache key has a COMPLETED prior step
\* run is never dispatched; its step run goes from PENDING to CACHED with the
\* output bindings of the prior run and no new artifact.
C9_CacheHitNotDispatched ==
    \A s \in Steps :
        (step_config[s].enable_cache /\ cached_run[s] = "COMPLETED") =>
            /\ dispatched[s] = 0
            /\ StatusOf(s) \in {"NONE", "PENDING", "CACHED"}
            /\ output_artifacts[s].from # "run"

DispatchRaised(f) == dispatched[f] > 0 /\ instances[f] = 0

\* C12: when create_instance raises for a step, no second call is made for
\* that step, and by the time the run is over its step run is FAILED and
\* every step that is not the step or one of its descendants has been
\* processed by the loop all the same.
C12_DispatchFailureScoped ==
    \A f \in Steps :
        DispatchRaised(f) =>
            /\ dispatched[f] = 1
            /\ Quiescent =>
                  /\ StatusOf(f) = "FAILED"
                  /\ \A s \in Steps \ {f} :
                        f \notin Ancestors(s) => dispatched[s] > 0

\* C13: the wait for a dispatched step returns only when its instance has
\* left the running state, by itself or because cleanup terminated it after
\* the maximum wait; so prepare_or_run_pipeline never returns while an
\* instance it started is still running.
C13_WaitEndsWithInstanceStopped ==
    /\ [][(pc = "sleep" /\ pc' # "sleep")
            => script'[sorted_steps[idx]] \notin {"docker_run", "terminate"}]_vars
    /\ [](pc = "returned" => \A s \in Steps : ~InstanceRunning(s))

\* C14: once a run is cancelled no step is dispatched any more, no step run
\* that is RUNNING has its instance left running (cleanup terminated it), and
\* a COMPLETED or CACHED step run keeps its status and its output bindings.
C14_CancelStopsAndCleansUp ==
    /\ [][pc = "cancelled" => dispatched' = dispatched]_vars
    /\ [](pc = "cancelled" =>
            \A s \in Steps : StatusOf(s) = "RUNNING" => ~InstanceRunning(s))
    /\ [][pc = "cancelled" =>
            \A s \in Steps :
                StatusOf(s) \in {"COMPLETED", "CACHED"} =>
                    /\ step_run'[s].status = step_run[s].status
                    /\ output_artifacts'[s] = output_artifacts[s]]_vars

\* C17: over a crash and the resumption of the run, a step whose step run is
\* recorded CACHED, COMPLETED or FAILED is not dispatched again.
C17_ResumeSkipsRecordedSteps ==
    [][\A s \in Steps :
          StatusOf(s) \in TerminalStatus =>
              dispatched'[s] = dispatched[s] /\ instances'[s] = instances[s]]_vars

\* Two steps neither of which is an ancestor of the other.
Unrelated(a, b) == a # b /\ a \notin Ancestors(b) /\ b \notin Ancestors(a)

\* prepare_or_run_pipeline is waiting for step w, which it dispatched last.
WaitingFor(w) == pc = "sleep" /\ sorted_steps[idx] = w

\* A create_instance call is made for step s.
Dispatch(s) ==
    /\ CreateInstance \/ CreateInstanceRaises \/ LogInstanceRaises
    /\ dispatched'[s] = dispatched[s] + 1

\* C15: while prepare_or_run_pipeline waits for a step whose instance is
\* running, a step unrelated to it whose parents are all terminal and which
\* has not been dispatched yet can be dispatched: the call for it is enabled
\* without the wait having to end first.
C15_WaitDoesNotBlockSiblings ==
    \A w, s \in Steps :
        (/\ WaitingFor(w)
         /\ InstanceRunning(w)
         /\ Unrelated(w, s)
         /\ \A p \in parents[s] : StatusOf(p) \in TerminalStatus
         /\ dispatched[s] = 0)
            => ENABLED Dispatch(s)

\* C16: every status transition of a step run is in the store before a step
\* that depends on it is started: once a step has been dispatched, the
\* stored status of none of its parents changes any more.
C16_PersistedBeforeDependents ==
    [][\A s \in Steps : \A p \in parents[s] :
          dispatched[s] > 0 => StatusOf(p)' = StatusOf(p)]_vars

\* C18: a specification with an input bound to nothing that is declared, or
\* with a cycle, is resolved to ResolutionError only, and neither before nor
\* after that is a pipeline run or a step run created or a step dispatched.
C18_InvalidSpecRejectedBeforeRun ==
    (~WellBound(pipeline_spec) \/ HasCycle(pipeline_spec)) =>
        /\ resolution \in {Unresolved, ResolutionError}
        /\ run_status = "none"
        /\ step_run = <<>>
        /\ \A s \in Steps : dispatched[s] = 0 /\ instances[s] = 0

\* C18 witness: a specification without a cycle in which an input is bound to
\* an undeclared step has been rejected.
C18_Witness ==
    /\ pc = "rejected"
    /\ resolution = ResolutionError
    /\ ~WellBound(pipeline_spec)
    /\ ~HasCycle(pipeline_spec)

\* C19: the image passed to create_instance is the configured image id when
\* one is set, and otherwise an image returned for the name filter whose
\* creation date no other returned image exceeds, in whatever order the
\* provider returned them.
C19_ConfiguredOrNewestImage ==
    pc = "loop" =>
        IF Truthy(self_instance_image)
        THEN instance_image = self_instance_image
        ELSE \E i \in 1..Len(ec2_images) :
                /\ instance_image = Some(ec2_images[i].ImageId)
                /\ \A j \in 1..Len(ec2_images) :
                      ec2_images[j].CreationDate <= ec2_images[i].CreationDate

\* C19 witness: no image is configured, the provider returned the dates
\* [T1, T3, T2] in this order, and the image of T3 (the second) was taken.
C19_Witness ==
    /\ pc = "loop"
    /\ self_instance_image = None
    /\ ec2_images = ScenarioImages
    /\ instance_image = Some(2)

\* The dict that a sequence of items denotes.
AsDict(items) == { items[i] : i \in 1..Len(items) }

\* Two steps have the same source hash, parameter values and input artifacts.
SameKeyComponents(a, b) ==
    /\ step_config[a].code_hash = step_config[b].code_hash
    /\ AsDict(step_config[a].parameters) = AsDict(step_config[b].parameters)
    /\ AsDict(input_artifacts[a]) = AsDict(input_artifacts[b])

\* C20: two step runs have the same cache key exactly when their steps have
\* the same source hash, the same parameter values and the same input
\* artifacts, in whatever order parameters and inputs were supplied.
C20_CacheKeyOfComponents ==
    \A a, b \in DOMAIN step_run :
        step_run[a].cache_key = step_run[b].cache_key <=> SameKeyComponents(a, b)

\* C20 witness: two step runs with the same source hash whose parameters and
\* whose inputs were supplied in different orders, with the same entries,
\* have the same key.
C20_Witness ==
    \E a, b \in DOMAIN step_run :
        /\ a # b
        /\ step_config[a].parameters # step_config[b].parameters
        /\ input_artifacts[a] # input_artifacts[b]
        /\ SameKeyComponents(a, b)
        /\ step_run[a].cache_key = step_run[b].cache_key

\* C21: when a run that dispatched a step is over (the pipeline run is
\* marked, or prepare_or_run_pipeline has ended and no instance is running),
\* the table holds a row with a terminal status for every step, also for the
\* steps that were not dispatched because an earlier step failed.
C21_EveryStepRecorded ==
    ((run_status # "running" \/ Quiescent) /\ \E d \in Steps : dispatched[d] > 0)
        => \A s \in Steps : StatusOf(s) \in TerminalStatus

\* The orderings of the steps of a specification.
Orderings(spec) ==
    { o \in [DOMAIN spec -> DOMAIN spec] : \A i, j \in DOMAIN spec : i # j => o[i] # o[j] }

\* An ordering in which every step comes after the producers of its inputs.
ValidOrdering(spec, o) ==
    \A i, j \in DOMAIN spec : o[j] \in spec[o[i]] => j < i

\* Ordering a does not come after b when the two are compared position by
\* position by the place the steps have in the declaration.
DeclaredNotAfter(a, b) ==
    \/ \A i \in DOMAIN a : a[i] = b[i]
    \/ \E i \in DOMAIN a : a[i] < b[i] /\ \A j \in 1..(i - 1) : a[j] = b[j]

\* C22: the ordering resolve returns is, among all the valid orderings of
\* the specification, the one that takes the step declared earlier at the
\* first position where two of them differ; it is therefore the same for
\* every resolution of the same specification.
C22_TiesByDeclarationOrder ==
    resolution.state = "resolved" =>
        /\ ValidOrdering(pipeline_spec, resolution.order)
        /\ \A o \in Orderings(pipeline_spec) :
              ValidOrdering(pipeline_spec, o) => DeclaredNotAfter(resolution.order, o)

\* C22 witness: a specification with several valid orderings, none of which
\* can start with the step declared first, has been resolved.
C22_Witness ==
    /\ resolution.state = "resolved"
    /\ Cardinality({ o \in Orderings(pipeline_spec) : ValidOrdering(pipeline_spec, o) }) > 1
    /\ resolution.order[1] # 1

\* C23: when no image id is configured and the provider returns no image
\* for the name filter, prepare_or_run_pipeline ends with the error of the
\* lookup: it never enters the loop and no instance is created for any step.
C23_NoImageNoInstance ==
    (~Truthy(self_instance_image) /\ ec2_images = <<>>) =>
        /\ pc \in {"resolve_image", "raised"}
        /\ instance_image = None
        /\ \A s \in Steps : dispatched[s] = 0 /\ instances[s] = 0

\* C23 witness: the lookup found no image and the call has ended with the
\* error.
C23_Witness ==
    /\ ~Truthy(self_instance_image)
    /\ ec2_images = <<>>
    /\ pc = "raised"

\* C24: the bootstrap script of an instance issues the request to terminate
\* the instance only after the container of the step has exited, and once the
\* container has exited, with code 0 or not, the script is at that request
\* or has issued it.
C24_SelfTerminationAfterExit ==
    /\ [](\A s \in Steps :
            /\ script[s] \in {"terminate", "terminated"} => exit_code[s] # None
            /\ exit_code[s] # None => script[s] \in {"terminate", "terminated"})
    /\ [][\A s \in Steps :
            (script[s] # "terminated" /\ script'[s] = "terminated")
                => (script[s] = "terminate" /\ exit_code[s] # None)]_vars

\* C24 witness: the container of a step exited with a failure code and the
\* request to terminate its instance has been issued.
C24_Witness ==
    \E s \in Steps : exit_code[s] = Some(1) /\ script[s] = "terminated"

\* The columns of a row that update is not to touch.
FrameColumns(row) ==
    <<row.name, row.pipeline_run_id, row.cache_key, row.start_time,
      row.parameters, row.step_configuration, row.enable_cache>>

\* C25: whatever the update model holds, an update leaves the name,
\* pipeline_run_id, cache_key, start_time, parameters, step_configuration and
\* enable_cache of the stored step run as they were.
C25_UpdateLeavesOtherColumns ==
    [][\A s \in DOMAIN step_run :
          s \in DOMAIN step_run'
              => FrameColumns(step_run'[s]) = FrameColumns(step_run[s])]_vars

\* C25 witness: the last update had a name, a cache key and a status set,
\* and the row still has the name and the cache key it was created with.
C25_Witness ==
    /\ last_update # None
    /\ {"name", "cache_key", "status"} \subseteq last_update[1].fields_set
    /\ 1 \in DOMAIN step_run
    /\ step_run[1].name = 1
    /\ step_run[1].cache_key = Some(1)

\* The update model carries a status.
CarriesStatus(u) == "status" \in u.fields_set /\ u.status # None

\* C26: an update that carries a status makes the stored status and end_time
\* those of the update model (an end_time that is not set reads empty); an
\* update that carries no status leaves both as they were, also when it has
\* an end_time set. So after any sequence of updates both are those of the
\* most recent update that carried a status.
C26_StatusAndEndTimeOfLastStatusUpdate ==
    [][(/\ 1 \in DOMAIN step_run
        /\ 1 \in DOMAIN step_run'
        /\ last_update' # None
        /\ <<step_run, last_update>>' # <<step_run, last_update>>)
          => LET u == last_update'[1]
             IN  IF CarriesStatus(u)
                 THEN /\ step_run'[1].status = u.status[1]
                      /\ step_run'[1].end_time = u.end_time
                 ELSE /\ step_run'[1].status = step_run[1].status
                      /\ step_run'[1].end_time = step_run[1].end_time]_vars

\* C26 witness: the last update, made after the clock advanced, had an
\* end_time set and no status, and the stored end_time is empty.
C26_Witness ==
    /\ last_update # None
    /\ ~CarriesStatus(last_update[1])
    /\ last_update[1].end_time # None
    /\ 1 \in DOMAIN step_run
    /\ step_run[1].end_time = None
    /\ step_run[1].updated > step_run[1].start_time[1]

\* C27: over the steps of one pipeline run the Neptune run is stopped at most
\* once, and it has been stopped exactly when the step declared last has
\* been cleaned up: the cleanup of any other step leaves it active.
C27_StoppedWithLastDeclaredStep ==
    /\ neptune_run.stops <= 1
    /\ neptune_run.stops > 0 <=> tracked[NumSteps] = "cleaned"

====
